---- MODULE Spec2Model ----
(***************************************************************************)
(* calamari_ctl: the Calamari setup tool.                                  *)
(*                                                                         *)
(* The model follows cthulhu/cthulhu/calamari_ctl.py.  Each invocation of  *)
(* the tool is one process: main() parses sys.argv, checks the privilege   *)
(* gate and runs the selected command (initialize, change_password,        *)
(* clear) statement group by statement group.  Any exception unwinds to    *)
(* the bare except of main(), which writes the diagnostic bundle.  The     *)
(* host's files, the schema store and the web accounts outlive a process.  *)
(***************************************************************************)
EXTENDS Integers, Sequences, FiniteSets, TLC

\* ---- bounds of the model -------------------------------------------------
\* number of invocations of the tool in one behaviour
MaxRuns == 2

\* ---- values ----------------------------------------------------------------
\* Python's None for an option that was not given
None == "<None>"

\* logging levels of the standard library
NOTSET == 0
DEBUG == 10
INFO == 20
WARNING == 30
ERROR == 40

ALEMBIC_TABLE == "alembic_version"
POSTGRES_SLS == "postgres.sls"
SERVICES_SLS == "services.sls"
RELAX_SALT_PERMS_SLS == "relax_salt_perms.sls"

\* the tables of the sqlalchemy models imported for create_all
DeclaredTables == {"sync_object", "server"}

\* the values get_random_string can return, abstracted to two
SecretKeys == {"k1", "k2"}

\* values the operator can type on the command line or at a prompt
Usernames == {"alice", "bob"}
Passwords == {"p", "q"}
Emails == {"a@x.com"}

\* effective uids of the invoking user: root and an ordinary user
Euids == {0, 1000}

\* what sys.stdout and sys.stderr are bound to when main() starts: the
\* interpreter's own streams, or a capture installed by an embedding caller
Streams == {<<"__stdout__", "__stderr__">>, <<"captured", "captured">>}

VARIABLES
    \* ---- the host: survives the process ----
    secret_key,    \* contents of the secret-key file: None (absent), "" or a key
    tables,        \* tables present in cthulhu's database
    accounts,      \* web accounts: username -> [password, email]
    \* ---- the process ----
    pc,            \* position of the process
    argv,          \* sys.argv
    args,          \* the parsed arguments
    euid,          \* what os.geteuid() returned, -1 while it was not called
    emitted,       \* every record handed to the logger `log`, in order
    console,       \* what the StreamHandler wrote
    log_tmp,       \* contents of the temporary file of buffer_handler
    calls,         \* the collaborators invoked by this process, in order
    trace,         \* the provisioning steps begun by this process, in order
    raised,        \* the step whose exception is unwinding / was reported
    bundle,        \* the diagnostic files written by this process, in order
    metadata,      \* Base.metadata.tables of this process
    sys_stdout,    \* sys.stdout
    sys_stderr,    \* sys.stderr
    \* ---- history ----
    at_start,      \* the host as it was when main() started
    runs           \* number of invocations so far

host == <<secret_key, tables, accounts>>
logs == <<emitted, console, log_tmp>>
streams == <<sys_stdout, sys_stderr>>
vars == <<secret_key, tables, accounts, pc, argv, args, euid,
          emitted, console, log_tmp, calls, trace, raised, bundle, metadata,
          sys_stdout, sys_stderr, at_start, runs>>

\* ---- the logger ----------------------------------------------------------
Msg(level, text) == [level |-> level, msg |-> text]

\* a handler writes only the records above its level
Handle_Above(sink, level, records) ==
    sink \o SelectSeq(records, LAMBDA r : r.level > level)

\* logging.Handler.handle: a handler writes the records at or above its level
Handle(sink, level, records) ==
    sink \o SelectSeq(records, LAMBDA r : r.level >= level)

\* log.debug/info/warn/error for a sequence of records: the logger passes the
\* records at or above its own level (DEBUG) to both handlers
Log(records) ==
    LET passed == SelectSeq(records, LAMBDA r : r.level >= DEBUG) IN
    /\ emitted' = emitted \o records
    /\ console' = Handle(console, INFO, passed)
    /\ log_tmp' = Handle(log_tmp, NOTSET, passed)

\* ---- argparse ------------------------------------------------------------
\* the command line for a choice of options
CommandLine(devmode, cmd, rest) ==
    <<"calamari-ctl">> \o (IF devmode THEN <<"--devmode">> ELSE <<>>) \o <<cmd>> \o rest

Option(flag, value) == IF value = None THEN <<>> ELSE <<flag, value>>

Flag(flag, given) == IF given THEN <<flag>> ELSE <<>>

\* the value following an option flag, None when the flag is not given
OptionValue(av, flag) ==
    IF \E i \in 1..(Len(av) - 1) : av[i] = flag
    THEN av[(CHOOSE i \in 1..(Len(av) - 1) : av[i] = flag) + 1]
    ELSE None

HasFlag(av, flag) == \E i \in 1..Len(av) : av[i] = flag

\* the subcommand: the first word after the program name that is not --devmode
SubCommand(av) == IF av[2] = "--devmode" THEN av[3] ELSE av[2]

\* parser.parse_args()
ParseArgs(av) ==
    [devmode |-> HasFlag(av, "--devmode"),
     func |-> SubCommand(av),
     admin_username |-> OptionValue(av, "--admin-username"),
     admin_password |-> OptionValue(av, "--admin-password"),
     admin_email |-> OptionValue(av, "--admin-email"),
     username |-> IF SubCommand(av) = "change_password" THEN av[Len(av)] ELSE None,
     yes_i_am_sure |-> HasFlag(av, "--yes-i-am-sure")]

\* initialize with the three admin options
InitializeLine(devmode, u, p, e) ==
    CommandLine(devmode, "initialize",
                Option("--admin-username", u) \o Option("--admin-password", p)
                    \o Option("--admin-email", e))

\* the command lines the operator can type.  Without --devmode: initialize
\* with no admin option, with all three, with one of them missing or empty;
\* change_password; clear with and without the confirmation.  With --devmode:
\* one line of each kind.
CommandLines ==
    {InitializeLine(FALSE, None, None, None)}
    \cup {InitializeLine(FALSE, u, p, e) : u \in Usernames, p \in Passwords, e \in Emails}
    \cup {InitializeLine(FALSE, "alice", None, None),
          InitializeLine(FALSE, "", "p", "a@x.com"),
          InitializeLine(FALSE, None, "p", "a@x.com")}
    \cup {CommandLine(FALSE, "change_password", <<u>>) : u \in Usernames}
    \cup {CommandLine(FALSE, "clear", Flag("--yes-i-am-sure", y)) : y \in BOOLEAN}
    \cup {InitializeLine(TRUE, None, None, None),
          InitializeLine(TRUE, "alice", "p", "a@x.com"),
          CommandLine(TRUE, "change_password", <<"alice">>),
          CommandLine(TRUE, "clear", <<>>),
          CommandLine(TRUE, "clear", <<"--yes-i-am-sure">>)}

\* truth value of an option in a Python condition: None and "" are false
Truthy(v) == v # None /\ v # ""

\* the key is written whether or not the file exists
SecretKeyAbsent_Always(file) == TRUE

\* not os.path.exists(config.get('calamari_web', 'secret_key_path'))
SecretKeyAbsent(file) == file = None

\* the store is not reflected into the metadata
Reflected_Unmerged(md, store) == md

\* Base.metadata.reflect(engine): the metadata gains the tables of the store
Reflected(md, store) == md \cup store

\* the store counts as populated when the metadata knows any table
AlembicPresent_AnyTable(md) == md # {}

\* ALEMBIC_TABLE in Base.metadata.tables
AlembicPresent(md) == ALEMBIC_TABLE \in md

\* args.admin_username and args.admin_password and args.admin_email
AllAdminOptions(a) ==
    Truthy(a.admin_username) /\ Truthy(a.admin_password) /\ Truthy(a.admin_email)

\* the username is not looked up before the account is created
UsernameFree_Unchecked(acc, username) == TRUE

\* not user_model.objects.filter(username=args.admin_username).exists()
UsernameFree(acc, username) == username \notin DOMAIN acc

\* the test on the number of accounts is inverted
NoAccountExists_Negated(acc) == Cardinality(DOMAIN acc) # 0

\* the number of accounts is not tested
NoAccountExists_Unchecked(acc) == TRUE

\* not user_model.objects.all().count()
NoAccountExists(acc) == Cardinality(DOMAIN acc) = 0

\* the test on the SLS file is inverted
TargetExists_Negated(sls, disk) == sls \notin disk

\* os.path.exists(sls), for the SLS files `disk` the host has at that moment
TargetExists(sls, disk) == sls \in disk

\* the uid is not compared with 0
CanProceed_AnyUid(devmode, id) == devmode \/ id >= 0

\* args.devmode or os.geteuid() == 0
CanProceed(devmode, id) == devmode \/ id = 0

\* only the captured stdout is logged
CapturedOutput_StdoutOnly(command) ==
    <<Msg(ERROR, <<"captured stdout", command>>)>>

\* log.error(sys.stdout.getvalue()); log.error(sys.stderr.getvalue())
CapturedOutput(command) ==
    <<Msg(ERROR, <<"captured stdout", command>>),
      Msg(ERROR, <<"captured stderr", command>>)>>

\* the outcomes of subprocess.call: an exit status, or no child at all
CallOutcomes == {"0", "1", "OSError"}

\* a non-zero exit status raises too, as subprocess.check_call would
CallRaises_NonZero(outcome) == outcome # "0"

\* subprocess.call raises only when the child cannot be started
CallRaises(outcome) == outcome = "OSError"

\* the exit status of salt-call is ignored
SaltFailed_Never(returncode) == FALSE

\* p.returncode != 0
SaltFailed(returncode) == returncode # 0

\* clear proceeds without the confirmation
Confirmed_Always(a) == TRUE

\* args.yes_i_am_sure
Confirmed(a) == a.yes_i_am_sure

\* the debug file takes the log from the unused log_buffer
DiagnosticBundle_LogBuffer(av, logfile, backtrace) ==
    [argv |-> av, log |-> <<>>, backtrace |-> backtrace]

\* the object main() dumps into the debug file
DiagnosticBundle(av, logfile, backtrace) ==
    [argv |-> av, log |-> logfile, backtrace |-> backtrace]

\* the account table of the web interface with no rows
NoAccounts == [u \in {} |-> None]

\* user_model.objects.create_superuser / the row createsuperuser inserts
CreateSuperuser(acc, username, password, email) ==
    [u \in DOMAIN acc \cup {username} |->
        IF u = username THEN [password |-> password, email |-> email] ELSE acc[u]]

\* ---- initial state ---------------------------------------------------------
Init ==
    /\ secret_key = None
    /\ tables = {}
    /\ accounts = NoAccounts
    /\ pc = "idle"
    /\ argv = <<>>
    /\ args = ParseArgs(CommandLine(FALSE, "clear", <<>>))
    /\ euid = -1
    /\ emitted = <<>>
    /\ console = <<>>
    /\ log_tmp = <<>>
    /\ calls = <<>>
    /\ trace = <<>>
    /\ raised = None
    /\ bundle = <<>>
    /\ metadata = DeclaredTables
    /\ sys_stdout = "__stdout__"
    /\ sys_stderr = "__stderr__"
    /\ at_start = [secret_key |-> None, tables |-> {}, accounts |-> NoAccounts]
    /\ runs = 0

\* ---- main() ----------------------------------------------------------------
\* The operator starts the tool: a new process with its own logger, temporary
\* log file, metadata and streams; args = parser.parse_args().
Invoke ==
    /\ pc \in {"idle", "exit"}
    /\ runs < MaxRuns
    /\ \E av \in CommandLines, io \in Streams :
          /\ argv' = av
          /\ args' = ParseArgs(av)
          /\ sys_stdout' = io[1]
          /\ sys_stderr' = io[2]
    /\ at_start' = [secret_key |-> secret_key, tables |-> tables, accounts |-> accounts]
    /\ euid' = -1
    /\ emitted' = <<>>
    /\ console' = <<>>
    /\ log_tmp' = <<>>
    /\ calls' = <<>>
    /\ trace' = <<>>
    /\ raised' = None
    /\ bundle' = <<>>
    /\ metadata' = DeclaredTables
    /\ runs' = runs + 1
    /\ pc' = "main"
    /\ UNCHANGED host

\* the first statement group of the command args.func
Entry(func) ==
    CASE func = "initialize" -> "load"
      [] func = "change_password" -> "changepassword"
      [] func = "clear" -> "clear"

\* if args.devmode or os.geteuid() == 0: args.func(args); else: log.error(...)
\* os.geteuid() is evaluated only when devmode is not set
Gate ==
    /\ pc = "main"
    /\ \E id \in (IF args.devmode THEN {-1} ELSE Euids) :
          /\ euid' = id
          /\ IF CanProceed(args.devmode, id)
             THEN /\ pc' = Entry(args.func)
                  /\ UNCHANGED logs
             ELSE /\ Log(<<Msg(ERROR, <<"Need root privileges to run">>)>>)
                  /\ pc' = "exit"
    /\ UNCHANGED <<host, argv, args, calls, trace, raised, bundle, metadata,
                   streams, at_start, runs>>

\* an exception leaves the step and unwinds to the except clause of main()
Raise(step) ==
    /\ pc' = "except"
    /\ raised' = step

\* the step completed: control reaches the next statement group
Continue(next) ==
    /\ pc' = next
    /\ UNCHANGED raised

\* ---- run_local_salt --------------------------------------------------------
\* run_local_salt(sls, message) called as provisioning step `step`;
\* os.path.exists(sls) reads the disk of the host at that moment
RunLocalSalt(step, sls, message, next) ==
    /\ pc = step
    /\ trace' = Append(trace, step)
    /\ \E disk \in SUBSET {sls} :
       IF TargetExists(sls, disk)
       THEN \/ \* Popen cannot start salt-call: OSError before anything is captured
               /\ Log(<<Msg(INFO, <<"Starting/enabling", message>>)>>)
               /\ calls' = calls \o <<(<<"on disk", sls, disk>>), <<"salt-call", sls>>>>
               /\ Raise(step)
            \/ \E returncode \in {0, 1} :
               /\ Log(<<Msg(INFO, <<"Starting/enabling", message>>),
                        Msg(DEBUG, <<message, "salt stdout">>),
                        Msg(DEBUG, <<message, "salt stderr">>)>>)
               /\ calls' = calls \o <<(<<"on disk", sls, disk>>), <<"salt-call", sls, returncode>>>>
               /\ IF SaltFailed(returncode) THEN Raise(step) ELSE Continue(next)
       ELSE /\ Log(<<Msg(DEBUG, <<"Skipping", message>>)>>)
            /\ calls' = Append(calls, <<"on disk", sls, disk>>)
            /\ Continue(next)
    /\ UNCHANGED <<host, argv, args, euid, bundle, metadata, streams, at_start, runs>>

\* ---- quiet -----------------------------------------------------------------
\* with quiet(): execute_from_command_line(["", command, "--noinput"])
Quiet(step, command, next) ==
    /\ pc = step
    /\ trace' = Append(trace, step)
    /\ calls' = Append(calls, <<command>>)
    /\ \/ /\ UNCHANGED logs
          /\ Continue(next)
       \/ /\ Log(CapturedOutput(command))
          /\ Raise(step)
    /\ sys_stdout' = "__stdout__"
    /\ sys_stderr' = "__stderr__"
    /\ UNCHANGED <<host, argv, args, euid, bundle, metadata, at_start, runs>>

\* ---- initialize ------------------------------------------------------------
\* log.info("Loading configuration.."); config = CalamariConfig()
LoadConfiguration ==
    /\ pc = "load"
    /\ trace' = Append(trace, "load")
    /\ Log(<<Msg(INFO, <<"Loading configuration..">>)>>)
    /\ calls' = Append(calls, <<"CalamariConfig">>)
    /\ \/ Continue("secret_key")
       \/ Raise("load")
    /\ UNCHANGED <<host, argv, args, euid, bundle, metadata, streams, at_start, runs>>

\* if not os.path.exists(secret_key_path): open(path, 'w').write(get_random_string(..))
\* open() creates the file before the key is generated and written
SecretKey ==
    /\ pc = "secret_key"
    /\ trace' = Append(trace, "secret_key")
    /\ IF SecretKeyAbsent(secret_key)
       THEN \/ \E key \in SecretKeys :
                 /\ secret_key' = key
                 /\ Continue("relax_salt_perms")
            \/ /\ secret_key' \in {None, ""}
               /\ Raise("secret_key")
       ELSE /\ UNCHANGED secret_key
            /\ \/ Continue("relax_salt_perms")
               \/ Raise("secret_key")
    /\ UNCHANGED <<tables, accounts, argv, args, euid, logs, calls, bundle,
                   metadata, streams, at_start, runs>>

RelaxSaltPerms == RunLocalSalt("relax_salt_perms", RELAX_SALT_PERMS_SLS, "salt", "postgres")

Postgres == RunLocalSalt("postgres", POSTGRES_SLS, "postgres", "migration")

\* engine = create_engine(db_path); Base.metadata.reflect(engine);
\* alembic_config = AlembicConfig()
Reflect ==
    /\ pc = "migration"
    /\ trace' = Append(trace, "migration")
    /\ calls' = Append(calls, <<"reflect">>)
    /\ \/ /\ metadata' = Reflected(metadata, tables)
          /\ Continue("branch")
       \/ /\ UNCHANGED metadata
          /\ Raise("migration")
    /\ UNCHANGED <<host, argv, args, euid, logs, bundle, streams, at_start, runs>>

\* if ALEMBIC_TABLE in Base.metadata.tables: command.upgrade(alembic_config, "head")
\* else: Base.metadata.create_all(engine)
\* create_all creates the tables of the metadata that the store lacks; a
\* failing create_all may have created some of them
Migrate ==
    /\ pc = "branch"
    /\ IF AlembicPresent(metadata)
       THEN /\ Log(<<Msg(INFO, <<"Updating database...">>)>>)
            /\ calls' = Append(calls, <<"upgrade", "head">>)
            /\ UNCHANGED tables
            /\ \/ Continue("syncdb")
               \/ Raise("migration")
       ELSE /\ Log(<<Msg(INFO, <<"Initializing database...">>)>>)
            /\ calls' = Append(calls, <<"create_all">>)
            /\ \/ /\ tables' = tables \cup metadata
                  /\ Continue("stamp")
               \/ /\ \E created \in SUBSET (metadata \ tables) :
                        /\ created # metadata \ tables
                        /\ tables' = tables \cup created
                  /\ Raise("migration")
    /\ UNCHANGED <<secret_key, accounts, argv, args, euid, trace, bundle,
                   metadata, streams, at_start, runs>>

\* command.stamp(alembic_config, "head"): records head in the version table
Stamp ==
    /\ pc = "stamp"
    /\ calls' = Append(calls, <<"stamp", "head">>)
    /\ \/ /\ tables' = tables \cup {ALEMBIC_TABLE}
          /\ Continue("syncdb")
       \/ /\ UNCHANGED tables
          /\ Raise("migration")
    /\ UNCHANGED <<secret_key, accounts, argv, args, euid, logs, trace, bundle,
                   metadata, streams, at_start, runs>>

Syncdb == Quiet("syncdb", "syncdb", "admin")

\* the administrative account: create_superuser when all three options are
\* given and the username is free, createsuperuser when there is no account.
\* The account table keeps usernames unique: inserting a taken username raises.
AdminAccount ==
    /\ pc = "admin"
    /\ trace' = Append(trace, "admin")
    /\ IF AllAdminOptions(args)
       THEN IF UsernameFree(accounts, args.admin_username)
            THEN /\ Log(<<Msg(INFO, <<"Initializing web interface...">>),
                          Msg(INFO, <<"Creating user", args.admin_username>>)>>)
                 /\ calls' = Append(calls, <<"create_superuser", args.admin_username>>)
                 /\ \/ /\ args.admin_username \notin DOMAIN accounts
                       /\ accounts' = CreateSuperuser(accounts, args.admin_username,
                                                     args.admin_password, args.admin_email)
                       /\ Continue("collectstatic")
                    \/ /\ UNCHANGED accounts
                       /\ Raise("admin")
            ELSE /\ Log(<<Msg(INFO, <<"Initializing web interface...">>)>>)
                 /\ UNCHANGED <<calls, accounts>>
                 /\ Continue("collectstatic")
       ELSE IF NoAccountExists(accounts)
            THEN /\ Log(<<Msg(INFO, <<"Initializing web interface...">>),
                          Msg(INFO, <<"You will now be prompted for login details">>)>>)
                 /\ calls' = Append(calls, <<"createsuperuser">>)
                 /\ \/ \E u \in Usernames \ DOMAIN accounts, p \in Passwords, e \in Emails :
                          /\ accounts' = CreateSuperuser(accounts, u, p, e)
                          /\ Continue("collectstatic")
                    \/ /\ UNCHANGED accounts
                       /\ Raise("admin")
            ELSE /\ Log(<<Msg(INFO, <<"Initializing web interface...">>)>>)
                 /\ UNCHANGED <<calls, accounts>>
                 /\ Continue("collectstatic")
    /\ UNCHANGED <<secret_key, tables, argv, args, euid, bundle, metadata,
                   streams, at_start, runs>>

Collectstatic == Quiet("collectstatic", "collectstatic", "chown")

\* apache_user = pwd.getpwnam(..); os.chown(log_path, ..);
\* if db_engine.endswith("sqlite3"): os.chown(db_name, ..)
Chown ==
    /\ pc = "chown"
    /\ trace' = Append(trace, "chown")
    /\ \/ /\ calls' = Append(calls, <<"getpwnam">>)
          /\ Raise("chown")
       \/ /\ calls' = calls \o <<(<<"getpwnam">>), <<"chown", "log_path">>>>
          /\ \/ Continue("services")
             \/ Raise("chown")
       \/ /\ calls' = calls \o <<(<<"getpwnam">>), <<"chown", "log_path">>, <<"chown", "db_name">>>>
          /\ \/ Continue("services")
             \/ Raise("chown")
    /\ UNCHANGED <<host, argv, args, euid, logs, bundle, metadata, streams, at_start, runs>>

Services == RunLocalSalt("services", SERVICES_SLS, "services", "restart")

\* log.info("Restarting services..."); subprocess.call(['supervisorctl', ..]);
\* log.info("Complete.")
\* subprocess.call returns the exit status, which is dropped; it raises
\* OSError when supervisorctl cannot be started
Restart ==
    /\ pc = "restart"
    /\ trace' = Append(trace, "restart")
    /\ \E outcome \in CallOutcomes :
          /\ calls' = Append(calls, <<"supervisorctl", "restart", "cthulhu", outcome>>)
          /\ IF CallRaises(outcome)
             THEN /\ Log(<<Msg(INFO, <<"Restarting services...">>)>>)
                  /\ Raise("restart")
             ELSE /\ Log(<<Msg(INFO, <<"Restarting services...">>),
                           Msg(INFO, <<"Complete.">>)>>)
                  /\ Continue("exit")
    /\ UNCHANGED <<host, argv, args, euid, bundle, metadata, streams, at_start, runs>>

\* ---- change_password -------------------------------------------------------
\* execute_from_command_line(["", "changepassword", args.username])
ChangePassword ==
    /\ pc = "changepassword"
    /\ calls' = Append(calls, <<"changepassword", args.username>>)
    /\ \/ /\ args.username \in DOMAIN accounts
          /\ \E p \in Passwords :
                accounts' = [accounts EXCEPT ![args.username].password = p]
          /\ Continue("exit")
       \/ /\ UNCHANGED accounts
          /\ Raise("changepassword")
    /\ UNCHANGED <<secret_key, tables, argv, args, euid, logs, trace, bundle,
                   metadata, streams, at_start, runs>>

\* ---- clear -----------------------------------------------------------------
\* if not args.yes_i_am_sure: log.warn(..); return
\* log.info("Loading configuration.."); config = CalamariConfig()
Clear ==
    /\ pc = "clear"
    /\ IF ~Confirmed(args)
       THEN /\ Log(<<Msg(WARNING, <<"This will remove all stored Calamari monitoring status and history">>)>>)
            /\ UNCHANGED calls
            /\ Continue("exit")
       ELSE /\ Log(<<Msg(INFO, <<"Loading configuration..">>)>>)
            /\ calls' = Append(calls, <<"CalamariConfig">>)
            /\ \/ Continue("drop_all")
               \/ Raise("clear")
    /\ UNCHANGED <<host, argv, args, euid, trace, bundle, metadata, streams, at_start, runs>>

\* log.info("Dropping tables"); engine = create_engine(db_path);
\* Base.metadata.drop_all(engine)
\* drop_all drops the tables of the metadata that the store has; a failing
\* drop_all may have dropped some of them
DropAll ==
    /\ pc = "drop_all"
    /\ Log(<<Msg(INFO, <<"Dropping tables">>)>>)
    /\ calls' = Append(calls, <<"drop_all">>)
    /\ \/ /\ tables' = tables \ metadata
          /\ Continue("drop_alembic")
       \/ /\ \E dropped \in SUBSET (tables \cap metadata) :
                /\ dropped # tables \cap metadata
                /\ tables' = tables \ dropped
          /\ Raise("clear")
       \/ /\ UNCHANGED tables
          /\ Raise("clear")
    /\ UNCHANGED <<secret_key, accounts, argv, args, euid, trace, bundle,
                   metadata, streams, at_start, runs>>

\* Base.metadata.reflect(engine)
\* if ALEMBIC_TABLE in Base.metadata.tables: Base.metadata.tables[ALEMBIC_TABLE].drop(engine)
\* the drop of a table the store lacks raises
\* log.info("Complete.  Now run `%s initialize`")
DropAlembic ==
    /\ pc = "drop_alembic"
    /\ \/ /\ metadata' = Reflected(metadata, tables)
          /\ IF AlembicPresent(metadata')
             THEN /\ calls' = calls \o <<(<<"reflect">>), <<"drop", ALEMBIC_TABLE>>>>
                  /\ \/ /\ ALEMBIC_TABLE \in tables
                        /\ tables' = tables \ {ALEMBIC_TABLE}
                        /\ Log(<<Msg(INFO, <<"Complete.  Now run initialize">>)>>)
                        /\ Continue("exit")
                     \/ /\ UNCHANGED <<tables, logs>>
                        /\ Raise("clear")
             ELSE /\ calls' = Append(calls, <<"reflect">>)
                  /\ UNCHANGED tables
                  /\ Log(<<Msg(INFO, <<"Complete.  Now run initialize">>)>>)
                  /\ Continue("exit")
       \/ /\ calls' = Append(calls, <<"reflect">>)
          /\ UNCHANGED <<metadata, tables, logs>>
          /\ Raise("clear")
    /\ UNCHANGED <<secret_key, accounts, argv, args, euid, trace, bundle,
                   streams, at_start, runs>>

\* ---- the except clause of main() -------------------------------------------
\* open(debug_filename, 'w').write(json.dumps({'argv': sys.argv,
\*     'log': open(log_tmp.name, 'r').read(), 'backtrace': ..})); log.error(..)
Report ==
    /\ pc = "except"
    /\ bundle' = Append(bundle, DiagnosticBundle(argv, log_tmp, raised))
    /\ Log(<<Msg(ERROR, <<"We are sorry, an unexpected error occurred">>)>>)
    /\ pc' = "exit"
    /\ UNCHANGED <<host, argv, args, euid, calls, trace, raised, metadata, streams,
                   at_start, runs>>

Next ==
    \/ Invoke
    \/ Gate
    \/ LoadConfiguration
    \/ SecretKey
    \/ RelaxSaltPerms
    \/ Postgres
    \/ Reflect
    \/ Migrate
    \/ Stamp
    \/ Syncdb
    \/ AdminAccount
    \/ Collectstatic
    \/ Chown
    \/ Services
    \/ Restart
    \/ ChangePassword
    \/ Clear
    \/ DropAll
    \/ DropAlembic
    \/ Report

Spec == Init /\ [][Next]_vars

\* ---- vocabulary of the properties ------------------------------------------
\* the collaborator call c was made by this process
Called(c) == \E i \in 1..Len(calls) : calls[i] = c

\* how many times the collaborator call c was made by this process
TimesCalled(c) == Cardinality({i \in 1..Len(calls) : calls[i] = c})

\* the position of the first call c of this process
FirstCall(c) == CHOOSE i \in 1..Len(calls) : calls[i] = c /\ \A j \in 1..(i - 1) : calls[j] # c

\* the provisioning step was begun by this process
Reached(step) == \E i \in 1..Len(trace) : trace[i] = step

\* the process is a run of initialize
InitializeRun == runs > 0 /\ args.func = "initialize"

\* all three admin options were given a non-empty value
AdminGiven ==
    /\ args.admin_username \notin {None, ""}
    /\ args.admin_password \notin {None, ""}
    /\ args.admin_email \notin {None, ""}

\* none of the admin options was given
NoAdminOption ==
    /\ args.admin_username = None
    /\ args.admin_password = None
    /\ args.admin_email = None

\* ---- C1 --------------------------------------------------------------------
\* C1: in a run of initialize that starts with alembic_version in the schema
\* store, the detector finds the table (the branch is taken with it in the
\* metadata), upgrade to head has been invoked once the migration step is
\* behind, create_all and stamp are never invoked and the table stays.
C1_ExistingStoreIsUpgraded ==
    (InitializeRun /\ ALEMBIC_TABLE \in at_start.tables) =>
        /\ ~Called(<<"create_all">>)
        /\ ~Called(<<"stamp", "head">>)
        /\ ALEMBIC_TABLE \in tables
        /\ (pc = "branch" => ALEMBIC_TABLE \in metadata)
        /\ (Reached("syncdb") => TimesCalled(<<"upgrade", "head">>) = 1)

C1_Witness ==
    /\ InitializeRun
    /\ ALEMBIC_TABLE \in at_start.tables
    /\ pc = "exit"
    /\ raised = None
    /\ Called(<<"upgrade", "head">>)

\* ---- C2 --------------------------------------------------------------------
\* C2: in a run of initialize that starts without alembic_version in the
\* schema store, upgrade is never invoked, stamp is only invoked after
\* create_all, and once the migration step is behind create_all and then
\* stamp(head) have each been invoked once.
C2_FreshStoreIsCreatedThenStamped ==
    (InitializeRun /\ ALEMBIC_TABLE \notin at_start.tables) =>
        /\ ~Called(<<"upgrade", "head">>)
        /\ (pc = "branch" => ALEMBIC_TABLE \notin metadata)
        /\ (Called(<<"stamp", "head">>) =>
               /\ Called(<<"create_all">>)
               /\ FirstCall(<<"create_all">>) < FirstCall(<<"stamp", "head">>))
        /\ (Reached("syncdb") =>
               /\ TimesCalled(<<"create_all">>) = 1
               /\ TimesCalled(<<"stamp", "head">>) = 1)

C2_Witness ==
    /\ InitializeRun
    /\ at_start.tables = {}
    /\ pc = "exit"
    /\ raised = None
    /\ Called(<<"create_all">>)
    /\ Called(<<"stamp", "head">>)

\* ---- C3 --------------------------------------------------------------------
\* C3: in a run of initialize that starts with the secret-key file existing,
\* the file holds its initial contents in every state of the run, completed
\* or failed.
C3_ExistingSecretKeyIsKept ==
    (InitializeRun /\ at_start.secret_key # None) => secret_key = at_start.secret_key

C3_Witness ==
    /\ InitializeRun
    /\ at_start.secret_key \in SecretKeys
    /\ Reached("relax_salt_perms")
    /\ pc = "exit"

\* ---- C4 --------------------------------------------------------------------
\* C4: in a run of initialize given all three admin options: if the username
\* has no account when the run starts, then once the admin step is behind
\* exactly that one account was added, with the given password and email, by
\* one call of create_superuser; if the username has an account when the run
\* starts, create_superuser is not called and the accounts stay as they were.
C4_OneAccountThenNoMore ==
    (InitializeRun /\ AdminGiven) =>
        LET u == args.admin_username IN
        IF u \notin DOMAIN at_start.accounts
        THEN /\ TimesCalled(<<"create_superuser", u>>) <= 1
             /\ (Reached("collectstatic") =>
                    /\ DOMAIN accounts = DOMAIN at_start.accounts \cup {u}
                    /\ accounts[u] = [password |-> args.admin_password,
                                      email |-> args.admin_email]
                    /\ \A v \in DOMAIN at_start.accounts : accounts[v] = at_start.accounts[v]
                    /\ TimesCalled(<<"create_superuser", u>>) = 1)
        ELSE /\ accounts = at_start.accounts
             /\ ~Called(<<"create_superuser", u>>)

\* the second of two runs with the same admin options, completed
C4_Witness ==
    /\ InitializeRun
    /\ AdminGiven
    /\ runs = 2
    /\ args.admin_username \in DOMAIN at_start.accounts
    /\ at_start.accounts[args.admin_username] =
          [password |-> args.admin_password, email |-> args.admin_email]
    /\ Cardinality(DOMAIN accounts) = 1
    /\ pc = "exit"
    /\ raised = None

\* ---- C5 --------------------------------------------------------------------
\* C5: every step of a run of initialize keeps each existing account with its
\* password and email; a step that calls create_superuser does so for a
\* username that has no account; and a step that adds an account either ran
\* the interactive createsuperuser or announced "Creating user" on the console.
C5_AccountsAreNeverOverwritten ==
    [][InitializeRun =>
          /\ \A u \in DOMAIN accounts :
                u \in DOMAIN accounts' /\ accounts'[u] = accounts[u]
          /\ \A u \in Usernames :
                TimesCalled(<<"create_superuser", u>>)' > TimesCalled(<<"create_superuser", u>>)
                    => u \notin DOMAIN accounts
          /\ (accounts' # accounts =>
                \/ TimesCalled(<<"createsuperuser">>)' > TimesCalled(<<"createsuperuser">>)
                \/ \E u \in DOMAIN accounts' \ DOMAIN accounts :
                      /\ Len(console') > Len(console)
                      /\ console'[Len(console')] = Msg(INFO, <<"Creating user", u>>))
      ]_vars

\* a completed run given the options of an account that exists with another password
C5_Witness ==
    /\ InitializeRun
    /\ AdminGiven
    /\ args.admin_username \in DOMAIN at_start.accounts
    /\ at_start.accounts[args.admin_username].password # args.admin_password
    /\ Reached("collectstatic")
    /\ pc = "exit"
    /\ raised = None

\* ---- C6 --------------------------------------------------------------------
\* C6: in a run of initialize given no admin option that starts with no
\* account, createsuperuser is invoked at most once, and exactly once as soon
\* as the admin step was begun.
C6_InteractiveFlowOnce ==
    (InitializeRun /\ NoAdminOption /\ at_start.accounts = NoAccounts) =>
        /\ TimesCalled(<<"createsuperuser">>) <= 1
        /\ (Reached("admin") => TimesCalled(<<"createsuperuser">>) = 1)

C6_Witness ==
    /\ InitializeRun
    /\ NoAdminOption
    /\ at_start.accounts = NoAccounts
    /\ Called(<<"createsuperuser">>)
    /\ Cardinality(DOMAIN accounts) = 1
    /\ pc = "exit"
    /\ raised = None

\* ---- C7 --------------------------------------------------------------------
\* C7 as stated: in a run of initialize where at least one admin option was
\* given, or that starts with an account, createsuperuser is never invoked.
C7_PromptOnlyWithoutArgs ==
    (InitializeRun /\ (~NoAdminOption \/ at_start.accounts # NoAccounts)) =>
        ~Called(<<"createsuperuser">>)

\* C7 amended: in a run of initialize where all three admin options were given
\* a non-empty value, or that starts with an account, createsuperuser is never
\* invoked.
C7_PromptOnlyWithoutAllArgs ==
    (InitializeRun /\ (AdminGiven \/ at_start.accounts # NoAccounts)) =>
        ~Called(<<"createsuperuser">>)

\* a completed run given all options with no account, and one given none with an account
C7_Witness ==
    /\ InitializeRun
    /\ Reached("collectstatic")
    /\ pc = "exit"
    /\ raised = None
    /\ \/ AdminGiven /\ at_start.accounts = NoAccounts
       \/ NoAdminOption /\ at_start.accounts # NoAccounts

\* ---- C8 --------------------------------------------------------------------
\* the provisioning steps of initialize, in the order of its statements
StepOrder ==
    <<"load", "secret_key", "relax_salt_perms", "postgres", "migration", "syncdb",
      "admin", "collectstatic", "chown", "services", "restart">>

\* C8: in a run of initialize the steps begun are an initial part of the fixed
\* order; a step is about to begin only when all steps before it were begun
\* and nothing was raised; once a step raised (in particular once an external
\* action exited non-zero) it is the last step begun and the run is in the
\* handler of main() or over; a run that is over after a raise has written the
\* diagnostic file for that step; a run that is over without a raise, past the
\* gate, has begun all the steps.
C8_StepsInOrderFailFast ==
    InitializeRun =>
        /\ Len(trace) <= Len(StepOrder)
        /\ trace = SubSeq(StepOrder, 1, Len(trace))
        /\ (\E i \in 1..Len(StepOrder) : pc = StepOrder[i]) =>
               /\ Len(trace) < Len(StepOrder)
               /\ pc = StepOrder[Len(trace) + 1]
               /\ raised = None
        /\ (pc \in {"branch", "stamp"} =>
               /\ raised = None
               /\ Len(trace) > 0
               /\ trace[Len(trace)] = "migration")
        /\ (raised # None =>
               /\ pc \in {"except", "exit"}
               /\ Len(trace) > 0
               /\ trace[Len(trace)] = raised)
        /\ (\A sls \in {RELAX_SALT_PERMS_SLS, POSTGRES_SLS, SERVICES_SLS} :
               Called(<<"salt-call", sls, 1>>) => raised # None)
        /\ ((pc = "exit" /\ raised # None) =>
               /\ Len(bundle) = 1
               /\ bundle[1].backtrace = raised)
        /\ ((pc = "exit" /\ raised = None /\ trace # <<>>) => trace = StepOrder)

\* the datastore action exited non-zero: the run stopped there and was reported
C8_Witness ==
    /\ InitializeRun
    /\ Called(<<"salt-call", POSTGRES_SLS, 1>>)
    /\ raised = "postgres"
    /\ trace = SubSeq(StepOrder, 1, 4)
    /\ Len(bundle) = 1
    /\ pc = "exit"

\* ---- C9 --------------------------------------------------------------------
\* the records logged before the handler of main() logged its own line
LoggedBeforeReport == SubSeq(emitted, 1, Len(emitted) - 1)

\* C9: when a command is over after an exception, one diagnostic file was
\* written, its argv is sys.argv, and its log is not empty if a record of level
\* DEBUG or above was logged before the exception reached the handler.
C9_BundleHasArgvAndLog ==
    (pc = "exit" /\ raised # None) =>
        /\ Len(bundle) = 1
        /\ bundle[1].argv = argv
        /\ ((\E i \in 1..Len(LoggedBeforeReport) : LoggedBeforeReport[i].level >= DEBUG)
               => bundle[1].log # <<>>)

\* syncdb failed: the file holds what was logged up to the failure
C9_Witness ==
    /\ InitializeRun
    /\ pc = "exit"
    /\ raised = "syncdb"
    /\ Len(bundle) = 1
    /\ Len(bundle[1].log) > 2
    /\ bundle[1].argv = argv

\* ---- C10 -------------------------------------------------------------------
\* C10: in a run of clear without --yes-i-am-sure, in every state the schema
\* store is as it was when the run started and no collaborator (neither the
\* configuration nor a drop) was called; when the run is over, past the gate,
\* the console shows a record of level WARNING and nothing was raised.
C10_UnconfirmedClearDropsNothing ==
    (runs > 0 /\ args.func = "clear" /\ ~args.yes_i_am_sure) =>
        /\ tables = at_start.tables
        /\ calls = <<>>
        /\ raised = None
        /\ ((pc = "exit" /\ (args.devmode \/ euid = 0)) =>
               \E i \in 1..Len(console) : console[i].level = WARNING)

\* an unconfirmed clear, over, on a store that holds tables
C10_Witness ==
    /\ runs > 0
    /\ args.func = "clear"
    /\ ~args.yes_i_am_sure
    /\ ALEMBIC_TABLE \in tables
    /\ DeclaredTables \subseteq tables
    /\ pc = "exit"
    /\ Len(console) = 1
    /\ console[1].level = WARNING

\* ---- C11 -------------------------------------------------------------------
\* the process is a run of clear with --yes-i-am-sure
ConfirmedClearRun == runs > 0 /\ args.func = "clear" /\ args.yes_i_am_sure

\* C11: a run of clear with --yes-i-am-sure that is over without a raise, past
\* the gate, leaves the schema store empty, alembic_version included; and such
\* a run on a store that is already empty never calls the drop of
\* alembic_version and keeps the store empty in every state.
C11_ConfirmedClearEmptiesStore ==
    ConfirmedClearRun =>
        /\ ((pc = "exit" /\ raised = None /\ Called(<<"reflect">>)) => tables = {})
        /\ (at_start.tables = {} =>
               /\ tables = {}
               /\ ~Called(<<"drop", ALEMBIC_TABLE>>))

\* a confirmed clear of a fully populated store, over without a raise
C11_Witness ==
    /\ ConfirmedClearRun
    /\ at_start.tables = DeclaredTables \cup {ALEMBIC_TABLE}
    /\ Called(<<"drop", ALEMBIC_TABLE>>)
    /\ tables = {}
    /\ pc = "exit"
    /\ raised = None

\* ---- C12 -------------------------------------------------------------------
\* the three calls of run_local_salt: step, SLS file, step that follows
SaltSteps ==
    {<<"relax_salt_perms", RELAX_SALT_PERMS_SLS, "postgres">>,
     <<"postgres", POSTGRES_SLS, "migration">>,
     <<"services", SERVICES_SLS, "restart">>}

\* salt-call was started, or its start was attempted, for the SLS file
SaltCalled(sls) ==
    \/ Called(<<"salt-call", sls>>)
    \/ \E rc \in {0, 1} : Called(<<"salt-call", sls, rc>>)

\* C12: for each of the three calls of run_local_salt, when the SLS file was
\* not on disk no salt-call was started for it, the step did not raise, and
\* the run went on to the step that follows.
C12_MissingSlsIsSkipped ==
    \A st \in SaltSteps :
        (InitializeRun /\ Called(<<"on disk", st[2], {}>>)) =>
            /\ ~SaltCalled(st[2])
            /\ raised # st[1]
            /\ (pc = st[3] \/ Reached(st[3]))

\* a completed run where only the datastore SLS file was on disk
C12_Witness ==
    /\ InitializeRun
    /\ Called(<<"on disk", RELAX_SALT_PERMS_SLS, {}>>)
    /\ Called(<<"salt-call", POSTGRES_SLS, 0>>)
    /\ Called(<<"on disk", SERVICES_SLS, {}>>)
    /\ pc = "exit"
    /\ raised = None

\* ---- C13 -------------------------------------------------------------------
\* C13: a process whose command was entered has --devmode or the effective uid
\* 0; a process without --devmode whose effective uid is not 0 never calls a
\* collaborator, begins no step, leaves the host as it found it, writes no
\* diagnostic file, and ends with the one console line "Need root privileges".
C13_PrivilegeGate ==
    runs > 0 =>
        /\ (pc \notin {"main", "exit"} => (args.devmode \/ euid = 0))
        /\ ((~args.devmode /\ euid > 0) =>
               /\ pc = "exit"
               /\ calls = <<>>
               /\ trace = <<>>
               /\ raised = None
               /\ bundle = <<>>
               /\ secret_key = at_start.secret_key
               /\ tables = at_start.tables
               /\ accounts = at_start.accounts
               /\ console = <<Msg(ERROR, <<"Need root privileges to run">>)>>)

\* an ordinary user's initialize on a fresh host, refused
C13_Witness ==
    /\ InitializeRun
    /\ ~args.devmode
    /\ euid = 1000
    /\ pc = "exit"
    /\ Len(console) = 1

\* ---- C14 -------------------------------------------------------------------
\* the number of records of level ERROR on the console
ConsoleErrors == Cardinality({i \in 1..Len(console) : console[i].level = ERROR})

\* the line the handler of main() logs
SorryLine == Msg(ERROR, <<"We are sorry, an unexpected error occurred">>)

\* C14 as stated: when a command is over after an exception, whatever the
\* step that raised, the console shows exactly one record of level ERROR.
C14_OneErrorLine ==
    (pc = "exit" /\ raised # None) => ConsoleErrors = 1

\* C14 amended: when a command is over after an exception, nothing is raised
\* further, one diagnostic file was written and the last console record is the
\* handler's line; it is the only record of level ERROR unless the step that
\* raised was syncdb or collectstatic, where the captured stdout and stderr
\* come before it as two more records of level ERROR.
C14_OneErrorLineUnlessQuiet ==
    (pc = "exit" /\ raised # None) =>
        /\ Len(bundle) = 1
        /\ Len(console) > 0
        /\ console[Len(console)] = SorryLine
        /\ ConsoleErrors = IF raised \in {"syncdb", "collectstatic"} THEN 3 ELSE 1

\* collectstatic failed: three ERROR records on the console
C14_Witness ==
    /\ InitializeRun
    /\ pc = "exit"
    /\ raised = "collectstatic"
    /\ ConsoleErrors = 3
    /\ console[Len(console)] = SorryLine

\* ---- C15 -------------------------------------------------------------------
\* the outcome of the call of supervisorctl in this process
RestartCalled(outcome) == Called(<<"supervisorctl", "restart", "cthulhu", outcome>>)

CompleteLogged == \E i \in 1..Len(emitted) : emitted[i] = Msg(INFO, <<"Complete.">>)

\* C15 as stated: when supervisorctl exited non-zero or could not be started,
\* the failure is logged (a record above INFO), nothing is raised, "Complete."
\* is logged and no diagnostic file is written.
C15_RestartIsBestEffort ==
    (InitializeRun /\ pc = "exit" /\ (RestartCalled("1") \/ RestartCalled("OSError"))) =>
        /\ raised = None
        /\ CompleteLogged
        /\ bundle = <<>>
        /\ \E i \in 1..Len(emitted) : emitted[i].level > INFO

\* C15 amended: a non-zero exit of supervisorctl is ignored: nothing about it
\* is logged, nothing is raised, "Complete." is the last record logged and no
\* diagnostic file is written; when supervisorctl cannot be started the
\* exception reaches the handler of main(): "Complete." is not logged and the
\* diagnostic file is written.
C15_RestartExitIgnoredStartRaises ==
    (InitializeRun /\ pc = "exit") =>
        /\ (RestartCalled("1") =>
               /\ raised = None
               /\ bundle = <<>>
               /\ emitted[Len(emitted)] = Msg(INFO, <<"Complete.">>)
               /\ emitted[Len(emitted) - 1] = Msg(INFO, <<"Restarting services...">>)
               /\ \A i \in 1..Len(emitted) : emitted[i].level <= INFO)
        /\ (RestartCalled("OSError") =>
               /\ raised = "restart"
               /\ Len(bundle) = 1
               /\ ~CompleteLogged)

\* a run whose supervisorctl exited non-zero: completed, nothing reported
C15_Witness ==
    /\ InitializeRun
    /\ pc = "exit"
    /\ RestartCalled("1")
    /\ CompleteLogged
    /\ bundle = <<>>

\* ---- C16 -------------------------------------------------------------------
\* C16: a step that runs a command under quiet() leaves sys.stdout and
\* sys.stderr bound to what they were bound to when the step began, whatever
\* that was; when the command raises, the captured stdout and stderr are logged
\* at ERROR before the exception goes on; when it returns, nothing is logged.
C16_QuietRestoresStreams ==
    [][(pc = "syncdb" \/ pc = "collectstatic") =>
          /\ sys_stdout' = sys_stdout
          /\ sys_stderr' = sys_stderr
          /\ (raised' # None =>
                 \E command \in {"syncdb", "collectstatic"} :
                    emitted' = emitted \o <<Msg(ERROR, <<"captured stdout", command>>),
                                            Msg(ERROR, <<"captured stderr", command>>)>>)
          /\ (raised' = None => emitted' = emitted)
      ]_vars

\* ---- C17 -------------------------------------------------------------------
\* the message run_local_salt is given in the step
SaltMessage(step) ==
    CASE step = "relax_salt_perms" -> "salt"
      [] step = "postgres" -> "postgres"
      [] step = "services" -> "services"

\* how many times the start of salt-call was attempted for the SLS file
SaltAttempts(sls) ==
    TimesCalled(<<"salt-call", sls>>) + TimesCalled(<<"salt-call", sls, 0>>)
        + TimesCalled(<<"salt-call", sls, 1>>)

\* the temporary log file ends with the two DEBUG records of the salt output
EndsWithSaltOutput(file, message) ==
    /\ Len(file) >= 2
    /\ file[Len(file) - 1] = Msg(DEBUG, <<message, "salt stdout">>)
    /\ file[Len(file)] = Msg(DEBUG, <<message, "salt stderr">>)

\* C17: for each of the three calls of run_local_salt in a run of initialize:
\* salt-call is attempted at most once, and once when the SLS file was on disk;
\* when salt-call came back with an exit status, its stdout and stderr are in
\* the log file as DEBUG records, and they are the last records there while a
\* raise of the step is on its way to the handler; when the exit status was
\* not zero the step raised, it is the last step begun, and what the earlier
\* steps did stays: the secret-key file exists and, for the services action,
\* alembic_version is in the store.
C17_SaltRunsOnceLogsAndAborts ==
    \A st \in SaltSteps :
        InitializeRun =>
            /\ SaltAttempts(st[2]) <= 1
            /\ (Called(<<"on disk", st[2], {st[2]}>>) => SaltAttempts(st[2]) = 1)
            /\ \A rc \in {0, 1} :
                  Called(<<"salt-call", st[2], rc>>) =>
                     /\ \E i \in 1..Len(log_tmp) :
                           log_tmp[i] = Msg(DEBUG, <<SaltMessage(st[1]), "salt stdout">>)
                     /\ \E i \in 1..Len(log_tmp) :
                           log_tmp[i] = Msg(DEBUG, <<SaltMessage(st[1]), "salt stderr">>)
                     /\ ((pc = "except" /\ raised = st[1]) =>
                            EndsWithSaltOutput(log_tmp, SaltMessage(st[1])))
            /\ (Called(<<"salt-call", st[2], 1>>) =>
                   /\ raised = st[1]
                   /\ pc \in {"except", "exit"}
                   /\ trace[Len(trace)] = st[1]
                   /\ secret_key # None
                   /\ (at_start.secret_key = None => secret_key \in SecretKeys)
                   /\ (st[1] = "services" => ALEMBIC_TABLE \in tables))

\* the services action exited non-zero in the first run on a fresh host
C17_Witness ==
    /\ InitializeRun
    /\ at_start.secret_key = None
    /\ at_start.tables = {}
    /\ Called(<<"salt-call", SERVICES_SLS, 1>>)
    /\ raised = "services"
    /\ secret_key \in SecretKeys
    /\ ALEMBIC_TABLE \in tables
    /\ Len(bundle) = 1
    /\ pc = "exit"

\* ---- C18 -------------------------------------------------------------------
\* C18: the temporary log file holds every record handed to the logger, in
\* order, and the console holds exactly those of level INFO and above, in
\* order.
C18_VerboseSinkHasEverything ==
    /\ log_tmp = emitted
    /\ console = SelectSeq(emitted, LAMBDA r : r.level >= INFO)

\* a process that logged DEBUG records next to INFO ones
C18_Witness ==
    /\ \E i \in 1..Len(emitted) : emitted[i].level = DEBUG
    /\ \E i \in 1..Len(emitted) : emitted[i].level = ERROR
    /\ Len(console) > 0
    /\ Len(console) < Len(log_tmp)

\* ---- C19 -------------------------------------------------------------------
\* alembic_version is in the store exactly when the declared tables are
Consistent(store) == (ALEMBIC_TABLE \in store) <=> (DeclaredTables \subseteq store)

\* the process is a run of initialize that went through its last step
CompletedInitialize ==
    InitializeRun /\ pc = "exit" /\ raised = None /\ Reached("restart")

\* the process is a confirmed run of clear that went through its last step
CompletedClear ==
    /\ ConfirmedClearRun
    /\ (args.devmode \/ euid = 0)
    /\ pc = "exit"
    /\ raised = None

\* C19: the store of a new host is consistent (alembic_version is there
\* exactly when the declared tables are), and a completed run of initialize
\* or of confirmed clear that starts on a consistent store ends on a
\* consistent one: a completed initialize leaves alembic_version and the
\* declared tables in the store, a completed confirmed clear leaves neither.
\* So a run of initialize that starts on the store a completed initialize
\* left never invokes create_all and passes the migration step by upgrade,
\* and one that starts on the store a completed confirmed clear left never
\* invokes upgrade and passes the migration step by create_all and stamp.
C19_MarkerIffSchema ==
    /\ (runs = 0 => Consistent(tables))
    /\ ((CompletedInitialize /\ Consistent(at_start.tables)) =>
           /\ ALEMBIC_TABLE \in tables
           /\ DeclaredTables \subseteq tables
           /\ Consistent(tables))
    /\ ((CompletedClear /\ Consistent(at_start.tables)) =>
           /\ ALEMBIC_TABLE \notin tables
           /\ tables \cap DeclaredTables = {}
           /\ Consistent(tables))
    /\ ((InitializeRun /\ ALEMBIC_TABLE \in at_start.tables
             /\ DeclaredTables \subseteq at_start.tables) =>
           /\ ~Called(<<"create_all">>)
           /\ ~Called(<<"stamp", "head">>)
           /\ (Reached("syncdb") => TimesCalled(<<"upgrade", "head">>) = 1))
    /\ ((InitializeRun /\ ALEMBIC_TABLE \notin at_start.tables
             /\ at_start.tables \cap DeclaredTables = {}) =>
           /\ ~Called(<<"upgrade", "head">>)
           /\ (Reached("syncdb") =>
                  /\ TimesCalled(<<"create_all">>) = 1
                  /\ TimesCalled(<<"stamp", "head">>) = 1))

\* a second run of initialize, on the store the first one left, completed by
\* the upgrade path
C19_Witness ==
    /\ runs = 2
    /\ CompletedInitialize
    /\ at_start.secret_key \in SecretKeys
    /\ DeclaredTables \cup {ALEMBIC_TABLE} \subseteq at_start.tables
    /\ tables = at_start.tables
    /\ Called(<<"upgrade", "head">>)
    /\ ~Called(<<"create_all">>)

\* ---- C20 -------------------------------------------------------------------
\* C20: in a run of initialize "Complete." is never logged next to a written
\* diagnostic file; when the run is over and it was let through (devmode, or
\* effective uid 0), either "Complete." was logged, nothing was raised and no
\* diagnostic file was written, or one diagnostic file was written and
\* "Complete." was not logged; when it was refused, neither happened.
C20_CompleteOrBundle ==
    InitializeRun =>
        /\ ~(CompleteLogged /\ bundle # <<>>)
        /\ (pc = "exit" =>
               IF args.devmode \/ euid = 0
               THEN \/ CompleteLogged /\ raised = None /\ bundle = <<>>
                    \/ ~CompleteLogged /\ raised # None /\ Len(bundle) = 1
               ELSE ~CompleteLogged /\ bundle = <<>>)

\* root's initialize did every step but could not start supervisorctl
C20_Witness ==
    /\ InitializeRun
    /\ euid = 0
    /\ pc = "exit"
    /\ Called(<<"salt-call", SERVICES_SLS, 0>>)
    /\ raised = "restart"
    /\ Len(bundle) = 1
    /\ ~CompleteLogged
====
